---- MODULE Spec2Model ----
(***************************************************************************)
(* rbackup-cli: the upload pipeline.                                       *)
(*                                                                         *)
(*   Spec        commands::upload_files: buffer_unordered(parallelism)     *)
(*               over one upload_file future per file, each wrapped in     *)
(*               retried (FutureRetry + RetryHandler), then collect_errors.*)
(*   SpecStream  connector::upload::UploadedFile::into_multipart_form: one *)
(*               upload attempt's body, the `file` part stream and the     *)
(*               `file-hash` part stream sharing an Arc<Mutex<Sha256>>.    *)
(***************************************************************************)
EXTENDS Integers, Sequences, FiniteSets, TLC

\* ---------------------------------------------------------------- bounds
MaxFiles == 2
MaxParallelism == 2
MaxFileLen == 4
MaxByte == 1
MaxMtime == 3
MaxNodes == 3
MaxArgs == 2

\* ------------------------------------------------------------- constants
\* commands.rs:19
MAX_ATTEMPTS == 3

VARIABLES
    \* --- commands::upload_files
    filenames,      \* the expanded list (after unfold_dirs): path kinds
    parallelism,    \* the `parallelism` argument
    next,           \* position of the stream::iter over the futures
    in_progress,    \* BufferUnordered's in_progress_queue (task indices)
    results,        \* the Vec collected from the buffered stream
    run,            \* "running", or how upload_files ended
    report,         \* the value of collect_errors
    \* --- per upload_file future
    pc,             \* where the future is suspended
    attempt,        \* FutureRetry's attempt counter
    calls,          \* invocations of the closure given to retried
    requests,       \* HTTP requests sent for the file
    waits,          \* the backoff durations (seconds) slept so far
    answered,       \* status of the response being read (0: none)
    outcome,        \* the terminal outcome of the task
    \* --- one upload attempt's multipart body
    content,        \* the file's bytes
    filePos,        \* read position of the tokio File handle
    bodyState,      \* the `file` part stream: "open", "dropped"
    hasher,         \* the Sha256 state inside the Arc<Mutex<_>>
    hashState,      \* HashingPartState of the `file-hash` part stream
    sent,           \* chunks yielded by the `file` part stream
    hashSent,       \* items yielded by the `file-hash` part stream
    hashEnded,      \* the `file-hash` stream has returned None
    polledWhileHeld, \* the hash part was polled while the body held the Arc
    \* --- one call of connector::upload_file and the file it uploads
    upPc,           \* position in connector::upload_file
    mtime,          \* the file's modification time on disk (ms since epoch)
    metadata,       \* UploadedFile.metadata: what std::fs::metadata returned
    query,          \* the `size` and `mtime` query parameters of the request
    opened,         \* the file's length and mtime when TokioFile::open ran
    \* --- unfold_dirs on one directory
    fs,             \* the directory tree: node |-> [kind, parent, target]
    stack,          \* what the WalkDir iterator has still to yield
    out,            \* the paths collected so far
    walkPc,         \* "walking", "done"
    \* --- main, Upload branch
    mainPc,         \* position in main
    args,           \* the `filenames` argument: what each path is on disk
    recursive,      \* the recursion flag
    sessionLoaded   \* load_session has read the config file

schedVars == <<filenames, parallelism, next, in_progress, results, run, report>>
taskVars == <<pc, attempt, calls, requests, waits, answered, outcome>>
fileVars == <<upPc, mtime, metadata, query, opened>>
streamVars == <<content, filePos, bodyState, hasher, hashState, sent, hashSent,
                hashEnded, polledWhileHeld, fileVars>>
walkVars == <<fs, stack, out, walkPc>>
mainVars == <<mainPc, args, recursive, sessionLoaded>>
vars == <<schedVars, taskVars, streamVars, walkVars, mainVars>>

Tasks == 1..Len(filenames)

\* ------------------------------------------------- commands.rs: retried
\* ------------------------------------------------------ Result values
Ok(v) == [tag |-> "Ok", val |-> v]
Err(kind, found, at) ==
    [tag |-> "Err",
     val |-> [kind |-> kind, expected |-> 0, found |-> found, at |-> at]]
\* errors.rs:3-13: HttpError::InvalidStatus { expected, found }
InvalidStatus(expected, found, at) ==
    [tag |-> "Err",
     val |-> [kind |-> "InvalidStatus", expected |-> expected,
              found |-> found, at |-> at]]
Pending == [tag |-> "None", val |-> "none"]

\* the statuses a response may carry: the three the match names and one other
Statuses == {200, 412, 400, 500}
NoAnswer == 0

\* handle forwarding a local file error at once instead of retrying it
handle_NoRetryFile(att, e) ==
    IF att < MAX_ATTEMPTS /\ e.val.kind # "File"
    THEN [kind |-> "WaitRetry", secs |-> 2 ^ att, err |-> e]
    ELSE [kind |-> "ForwardError", secs |-> 0, err |-> e]

\* handle with `attempt <= MAX_ATTEMPTS`: one retry too many
handle_OneMore(att, e) ==
    IF att <= MAX_ATTEMPTS
    THEN [kind |-> "WaitRetry", secs |-> 2 ^ att, err |-> e]
    ELSE [kind |-> "ForwardError", secs |-> 0, err |-> e]

\* handle with a constant backoff instead of 2^attempt
handle_FlatWait(att, e) ==
    IF att < MAX_ATTEMPTS
    THEN [kind |-> "WaitRetry", secs |-> 2, err |-> e]
    ELSE [kind |-> "ForwardError", secs |-> 0, err |-> e]

\* RetryHandler::handle(attempt, e)
handle(att, e) ==
    IF att < MAX_ATTEMPTS
    THEN [kind |-> "WaitRetry", secs |-> 2 ^ att, err |-> e]
    ELSE [kind |-> "ForwardError", secs |-> 0, err |-> e]

\* ------------------------------------------- connector::upload_file

\* the part of connector::upload_file that runs before the request is sent
\* (mod.rs:94-100). Error kind "File" is any `?` on the local file:
\*   UploadedFile::open   canonicalize / metadata / modified fails
\*   as_query             modified() or duration_since(UNIX_EPOCH) fails, and
\*                        only then self.path.to_str().unwrap(), which panics
\*                        on a path that is not valid UTF-8
\*   get_body             TokioFile::open fails
AttemptPrefix(path, env, at) ==
    IF env = "OpenErr" THEN Err("File", 0, at)
    ELSE IF env = "MtimeErr" THEN Err("File", 0, at)
    ELSE IF path = "nonUtf8" THEN [tag |-> "Panic", val |-> "to_str().unwrap()"]
    ELSE IF env = "FileOpenErr" THEN Err("File", 0, at)
    ELSE [tag |-> "Sent", val |-> "sent"]

\* the match with 412 and 400 falling into the catch-all arm
ClassifyResponse_RejectionIsError(status, read, at) ==
    IF status = 200
    THEN IF read THEN Ok("Success") ELSE Err("Transport", 0, at)
    ELSE InvalidStatus(200, status, at)

\* the catch-all arm as register and login have it: expected 201
ClassifyResponse_Expected201(status, read, at) ==
    IF status = 200
    THEN IF read THEN Ok("Success") ELSE Err("Transport", 0, at)
    ELSE IF status = 412
    THEN IF read THEN Ok("HashMismatch") ELSE Err("Transport", 0, at)
    ELSE IF status = 400
    THEN IF read THEN Ok("BadRequest") ELSE Err("Transport", 0, at)
    ELSE InvalidStatus(201, status, at)

\* match resp.status() { ... } with resp.json()/resp.text() read or failing
ClassifyResponse(status, read, at) ==
    IF status = 200
    THEN IF read THEN Ok("Success") ELSE Err("Transport", 0, at)
    ELSE IF status = 412
    THEN IF read THEN Ok("HashMismatch") ELSE Err("Transport", 0, at)
    ELSE IF status = 400
    THEN IF read THEN Ok("BadRequest") ELSE Err("Transport", 0, at)
    ELSE InvalidStatus(200, status, at)

\* ------------------------------------------- commands::upload_file
\* upload_file turning a rejection into an error of the task
UploadFileResult_RejectionFails(r) ==
    IF r.tag = "Ok"
    THEN IF r.val = "Success" THEN Ok("unit") ELSE Err("Rejected", 0, 0)
    ELSE r

\* the .map(|r| match r { Success | HashMismatch | BadRequest => log }) on the
\* value of retried: every Ok becomes Ok(()), an Err passes through
UploadFileResult(r) ==
    IF r.tag = "Ok" THEN Ok("unit") ELSE r

\* --------------------------------------------- utils.rs: collect_errors
\* the fold dropping the collected errors at the next Ok
CollectStep_ForgetErrors(acc, a) ==
    IF acc.tag = "Err" /\ a.tag = "Err"
    THEN [tag |-> "Err", errs |-> Append(acc.errs, a)]
    ELSE IF a.tag = "Err"
    THEN [tag |-> "Err", errs |-> <<a>>]
    ELSE [tag |-> "Ok", errs |-> <<>>]

\* the fold keeping only the latest error
CollectStep_LastWins(acc, a) ==
    IF a.tag = "Err" THEN [tag |-> "Err", errs |-> <<a>>] ELSE acc

\* the fold keeping only the first error
CollectStep_KeepFirst(acc, a) ==
    IF acc.tag = "Err" THEN acc
    ELSE IF a.tag = "Err" THEN [tag |-> "Err", errs |-> <<a>>]
    ELSE [tag |-> "Ok", errs |-> <<>>]

CollectStep(acc, a) ==
    IF acc.tag = "Err" /\ a.tag = "Err"
    THEN [tag |-> "Err", errs |-> Append(acc.errs, a)]
    ELSE IF acc.tag = "Ok" /\ a.tag = "Err"
    THEN [tag |-> "Err", errs |-> <<a>>]
    ELSE IF acc.tag = "Err" THEN acc
    ELSE [tag |-> "Ok", errs |-> <<>>]

RECURSIVE Fold(_, _)
Fold(acc, list) ==
    IF list = <<>> THEN acc ELSE Fold(CollectStep(acc, Head(list)), Tail(list))

collect_errors(list) == Fold([tag |-> "Ok", errs |-> <<>>], list)

\* commands.rs:93-107: the match on the value of collect_errors
Returned(res) == IF res.tag = "Ok" THEN "Ok" ELSE "Err"

\* ----------------------------------------------------------------- Init
PathKinds == {"utf8", "nonUtf8"}

FileLists == UNION {[1..n -> PathKinds] : n \in 0..MaxFiles}

\* unfold_dirs is not running
WalkIdle ==
    /\ fs = <<>>
    /\ stack = <<>>
    /\ out = <<>>
    /\ walkPc = "none"

\* main is not modelled: upload_files is entered directly
MainIdle ==
    /\ mainPc = "none"
    /\ args = <<>>
    /\ recursive = FALSE
    /\ sessionLoaded = FALSE

StreamIdle ==
    /\ content = <<>>
    /\ filePos = 0
    /\ bodyState = "none"
    /\ hasher = 0
    /\ hashState = "none"
    /\ sent = <<>>
    /\ hashSent = <<>>
    /\ hashEnded = FALSE
    /\ polledWhileHeld = FALSE
    /\ upPc = "none"
    /\ mtime = 0
    /\ metadata = [len |-> 0, mtime |-> 0]
    /\ query = [size |-> "", mtime |-> ""]
    /\ opened = [len |-> 0, mtime |-> 0]

\* upload_files entered, unfold_dirs done, nothing pulled from the iterator
Init ==
    /\ filenames \in FileLists
    /\ parallelism \in 1..MaxParallelism
    /\ next = 1
    /\ in_progress = {}
    /\ results = <<>>
    /\ run = "running"
    /\ report = [tag |-> "None", errs |-> <<>>]
    /\ pc = [i \in Tasks |-> "queued"]
    /\ attempt = [i \in Tasks |-> 1]
    /\ calls = [i \in Tasks |-> 0]
    /\ requests = [i \in Tasks |-> 0]
    /\ waits = [i \in Tasks |-> <<>>]
    /\ answered = [i \in Tasks |-> NoAnswer]
    /\ outcome = [i \in Tasks |-> Pending]
    /\ StreamIdle
    /\ WalkIdle
    /\ MainIdle

\* ---------------------------------------- futures: buffer_unordered
\* BufferUnordered::poll_next first fills in_progress_queue up to `max`, then
\* polls the queued futures: a future is polled only once the slots are full
\* or the iterator is exhausted
SlotsFilled == Cardinality(in_progress) >= parallelism \/ next > Len(filenames)

\* the slot test not counting the tasks that wait in backoff
CanStart_SkipBackoff ==
    Cardinality({i \in in_progress : pc[i] # "backoff"}) < parallelism

\* the slot test off by one
CanStart_OffByOne == Cardinality(in_progress) <= parallelism

CanStart == Cardinality(in_progress) < parallelism

\* a backoff that sleeps on the thread: nothing is polled while a task waits
Polled_BlockingSleep(i) ==
    /\ run = "running"
    /\ i \in in_progress
    /\ SlotsFilled
    /\ \A j \in in_progress : j # i => pc[j] # "backoff"

Polled(i) == run = "running" /\ i \in in_progress /\ SlotsFilled

\* commands.rs:81-88: the next upload_file future is created and queued
StartTask ==
    /\ run = "running"
    /\ next <= Len(filenames)
    /\ CanStart
    /\ in_progress' = in_progress \cup {next}
    /\ pc' = [pc EXCEPT ![next] = "created"]
    /\ next' = next + 1
    /\ UNCHANGED <<filenames, parallelism, results, run, report>>
    /\ UNCHANGED <<attempt, calls, requests, waits, answered, outcome>>
    /\ UNCHANGED <<streamVars, walkVars, mainVars>>

\* the upload_file future completes with r (the value of canonicalize's `?`
\* or of retried): it leaves the queue and its mapped result is collected.
\* When it was the last one, the buffered stream ends in the same poll and
\* upload_files goes on to collect_errors and returns (commands.rs:87-107)
TaskDone(i, r) ==
    LET collected == Append(results,
                            [tag |-> UploadFileResult(r).tag,
                             val |-> UploadFileResult(r).val, file |-> i])
    IN
    /\ pc' = [pc EXCEPT ![i] = "done"]
    /\ outcome' = [outcome EXCEPT ![i] = r]
    /\ in_progress' = in_progress \ {i}
    /\ results' = collected
    /\ IF next > Len(filenames) /\ in_progress \ {i} = {}
       THEN /\ report' = collect_errors(collected)
            /\ run' = Returned(collect_errors(collected))
       ELSE UNCHANGED <<run, report>>

\* FutureRetry: the attempt ended in Err(e): RetryHandler decides
AttemptFailed(i, e) ==
    LET policy == handle(attempt[i], e) IN
    /\ attempt' = [attempt EXCEPT ![i] = @ + 1]
    /\ IF policy.kind = "WaitRetry"
       THEN /\ pc' = [pc EXCEPT ![i] = "backoff"]
            /\ waits' = [waits EXCEPT ![i] = Append(@, policy.secs)]
            /\ UNCHANGED <<outcome, in_progress, results, run, report>>
       ELSE /\ TaskDone(i, policy.err)
            /\ UNCHANGED waits

\* commands.rs:111-114: canonicalize(path)?, then retried builds FutureRetry,
\* which calls the closure for the first attempt
Canonicalize(i) ==
    /\ Polled(i)
    /\ pc[i] = "created"
    /\ \E ok \in BOOLEAN :
         IF ok
         THEN /\ pc' = [pc EXCEPT ![i] = "attempt"]
              /\ calls' = [calls EXCEPT ![i] = 1]
              /\ UNCHANGED <<outcome, in_progress, results, run, report>>
         ELSE /\ TaskDone(i, Err("Canonicalize", 0, 0))
              /\ UNCHANGED calls
    /\ UNCHANGED <<filenames, parallelism, next>>
    /\ UNCHANGED <<attempt, requests, waits, answered>>
    /\ UNCHANGED <<streamVars, walkVars, mainVars>>

\* connector::upload_file up to send(): mod.rs:92-101
BeginAttempt(i) ==
    /\ Polled(i)
    /\ pc[i] = "attempt"
    /\ \E env \in {"OpenErr", "MtimeErr", "FileOpenErr", "Fine"} :
         LET r == AttemptPrefix(filenames[i], env, attempt[i]) IN
         IF r.tag = "Panic"
         THEN /\ run' = "panicked"
              /\ UNCHANGED <<pc, attempt, requests, waits, outcome,
                             in_progress, results, report>>
         ELSE IF r.tag = "Sent"
         THEN /\ pc' = [pc EXCEPT ![i] = "sending"]
              /\ requests' = [requests EXCEPT ![i] = @ + 1]
              /\ UNCHANGED <<run, report, attempt, waits, outcome,
                             in_progress, results>>
         ELSE /\ AttemptFailed(i, r)
              /\ UNCHANGED requests
    /\ UNCHANGED <<filenames, parallelism, next>>
    /\ UNCHANGED <<calls, answered>>
    /\ UNCHANGED <<streamVars, walkVars, mainVars>>

\* connector::upload_file at send().await: mod.rs:101-113. A status of 200,
\* 412 or 400 leaves the response to be read (json()/text()); any other
\* status is InvalidStatus at once
Respond(i) ==
    /\ Polled(i)
    /\ pc[i] = "sending"
    /\ \/ \* send() fails: connection error or timeout
          /\ AttemptFailed(i, Err("Transport", 0, attempt[i]))
          /\ UNCHANGED answered
       \/ \E status \in Statuses :
            IF status \in {200, 412, 400}
            THEN /\ pc' = [pc EXCEPT ![i] = "reading"]
                 /\ answered' = [answered EXCEPT ![i] = status]
                 /\ UNCHANGED <<attempt, waits, outcome, in_progress, results,
                                run, report>>
            ELSE /\ AttemptFailed(i, ClassifyResponse(status, FALSE, attempt[i]))
                 /\ UNCHANGED answered
    /\ UNCHANGED <<filenames, parallelism, next>>
    /\ UNCHANGED <<calls, requests>>
    /\ UNCHANGED <<streamVars, walkVars, mainVars>>

\* mod.rs:107-109: resp.json().await? / resp.text().await? succeeds or fails,
\* and the match arm's value; the response is dropped with the attempt
ReadBody(i) ==
    /\ Polled(i)
    /\ pc[i] = "reading"
    /\ \E read \in BOOLEAN :
         LET r == ClassifyResponse(answered[i], read, attempt[i]) IN
         IF r.tag = "Ok"
         THEN /\ TaskDone(i, r)
              /\ UNCHANGED <<attempt, waits>>
         ELSE AttemptFailed(i, r)
    /\ answered' = [answered EXCEPT ![i] = NoAnswer]
    /\ UNCHANGED <<filenames, parallelism, next>>
    /\ UNCHANGED <<calls, requests>>
    /\ UNCHANGED <<streamVars, walkVars, mainVars>>

\* FutureRetry: the backoff timer fired, the closure is called again
BackoffElapsed(i) ==
    /\ Polled(i)
    /\ pc[i] = "backoff"
    /\ pc' = [pc EXCEPT ![i] = "attempt"]
    /\ calls' = [calls EXCEPT ![i] = @ + 1]
    /\ UNCHANGED schedVars
    /\ UNCHANGED <<attempt, requests, waits, answered, outcome>>
    /\ UNCHANGED <<streamVars, walkVars, mainVars>>

\* commands.rs:87-107 for an empty list: the buffered stream ends at its
\* first poll
FinishEmpty ==
    /\ run = "running"
    /\ Len(filenames) = 0
    /\ report' = collect_errors(results)
    /\ run' = Returned(collect_errors(results))
    /\ UNCHANGED <<filenames, parallelism, next, in_progress, results>>
    /\ UNCHANGED taskVars
    /\ UNCHANGED <<streamVars, walkVars, mainVars>>

Next ==
    \/ StartTask
    \/ \E i \in Tasks : Canonicalize(i)
    \/ \E i \in Tasks : BeginAttempt(i)
    \/ \E i \in Tasks : Respond(i)
    \/ \E i \in Tasks : ReadBody(i)
    \/ \E i \in Tasks : BackoffElapsed(i)
    \/ FinishEmpty

Spec == Init /\ [][Next]_vars

\* ====================================================================
\* connector/upload.rs: one upload attempt's multipart body
\* ====================================================================
Bytes == 0..MaxByte

Contents == UNION {[1..n -> Bytes] : n \in 0..MaxFileLen}

Min(a, b) == IF a < b THEN a ELSE b

RECURSIVE Concat(_)
Concat(chunks) ==
    IF chunks = <<>> THEN <<>> ELSE Head(chunks) \o Concat(Tail(chunks))

\* ------------------------------------------------ sha2::Sha256, hex
\* A one-byte running digest stands for SHA-256: input() folds the bytes into
\* the state one by one, result() finalizes it to the digest bytes.
Sha256New == 7

RECURSIVE Input(_, _)
Input(h, bytes) ==
    IF bytes = <<>> THEN h
    ELSE Input((h * 33 + Head(bytes) + 1) % 256, Tail(bytes))

Result(h) == <<h>>

HexDigits == <<"0", "1", "2", "3", "4", "5", "6", "7",
               "8", "9", "a", "b", "c", "d", "e", "f">>

RECURSIVE HexEncode(_)
HexEncode(bytes) ==
    IF bytes = <<>> THEN ""
    ELSE HexDigits[(Head(bytes) \div 16) + 1] \o HexDigits[(Head(bytes) % 16) + 1]
         \o HexEncode(Tail(bytes))

\* the digest of a byte sequence hashed in one pass
Digest(bytes) == HexEncode(Result(Input(Sha256New, bytes)))

\* ------------------------------------------------ get_body (53-76)
\* upload.rs:62
BuffCapacity == 4096

\* Vec::with_capacity(cap): room for cap bytes, length 0
VecWithCapacity(cap) == <<>>

\* file.read(&mut buff): AsyncReadExt::read takes a &mut [u8], here the Vec's
\* initialized part, and fills at most that many bytes; a read may be short
ReadSizes(buffLen, remaining) ==
    IF Min(buffLen, remaining) = 0 THEN {0} ELSE 1..Min(buffLen, remaining)

\* the buffer after n bytes were read into its front
Filled(buff, n) ==
    [k \in 1..Len(buff) |-> IF k <= n THEN content[filePos + k] ELSE buff[k]]

\* ------------------------------------------------ get_hash_part (78-109)
\* strong references to the Arc<Mutex<Sha256>>: the unfold closure of the
\* `file` stream holds one as long as that stream lives; the `file-hash`
\* stream holds one in Init(arc)
StrongCount ==
    (IF bodyState = "open" THEN 1 ELSE 0) + (IF hashState = "Init" THEN 1 ELSE 0)

\* taking the hasher without regard to the other holder
unwrap_hasher_Shared(strong) == "Ok"

\* Arc::try_unwrap succeeds only for the last strong reference
unwrap_hasher(strong) == IF strong = 1 THEN "Ok" ELSE "Err"

OkItem(v) == [tag |-> "Ok", val |-> v]
ErrItem == [tag |-> "Err", val |-> "Could not unwrap Arc!"]

\* the Hashing arm handing the state back instead of closing
HashPartStep_StayHashing(state, strong, h) ==
    IF state = "Init"
    THEN IF unwrap_hasher(strong) = "Ok"
         THEN [some |-> TRUE, item |-> OkItem(""), state |-> "Hashing"]
         ELSE [some |-> TRUE, item |-> ErrItem, state |-> "Closed"]
    ELSE IF state = "Hashing"
    THEN [some |-> TRUE, item |-> OkItem(HexEncode(Result(h))), state |-> "Hashing"]
    ELSE [some |-> FALSE, item |-> ErrItem, state |-> "Closed"]

\* one step of the unfold closure: the item yielded and the next state
HashPartStep(state, strong, h) ==
    IF state = "Init"
    THEN IF unwrap_hasher(strong) = "Ok"
         THEN [some |-> TRUE, item |-> OkItem(""), state |-> "Hashing"]
         ELSE [some |-> TRUE, item |-> ErrItem, state |-> "Closed"]
    ELSE IF state = "Hashing"
    THEN [some |-> TRUE, item |-> OkItem(HexEncode(Result(h))), state |-> "Closed"]
    ELSE [some |-> FALSE, item |-> ErrItem, state |-> "Closed"]

SchedIdle ==
    /\ filenames = <<>>
    /\ parallelism = 1
    /\ next = 1
    /\ in_progress = {}
    /\ results = <<>>
    /\ run = "idle"
    /\ report = [tag |-> "None", errs |-> <<>>]
    /\ pc = <<>>
    /\ attempt = <<>>
    /\ calls = <<>>
    /\ requests = <<>>
    /\ waits = <<>>
    /\ answered = <<>>
    /\ outcome = <<>>

\* the decimal digits of format!("{}", n)
DecDigits == <<"0", "1", "2", "3", "4", "5", "6", "7", "8", "9">>

RECURSIVE Format(_)
Format(n) ==
    IF n < 10 THEN DecDigits[n + 1]
    ELSE Format(n \div 10) \o DecDigits[(n % 10) + 1]

\* what the filesystem reports for the path at this instant
Stat == [len |-> Len(content), mtime |-> mtime]

\* connector::upload_file is entered (mod.rs:88-92) for a file that exists:
\* nothing has been read from it yet
InitStream ==
    /\ SchedIdle
    /\ WalkIdle
    /\ MainIdle
    /\ content \in Contents
    /\ mtime = 1
    /\ upPc = "open"
    /\ metadata = [len |-> 0, mtime |-> 0]
    /\ query = [size |-> "", mtime |-> ""]
    /\ opened = [len |-> 0, mtime |-> 0]
    /\ filePos = 0
    /\ bodyState = "none"
    /\ hasher = 0
    /\ hashState = "none"
    /\ sent = <<>>
    /\ hashSent = <<>>
    /\ hashEnded = FALSE
    /\ polledWhileHeld = FALSE

\* another process appends a byte to the file, truncates it by one or
\* rewrites it in place, before this process has opened its handle
Modify ==
    /\ upPc \in {"open", "query", "form"}
    /\ mtime < MaxMtime
    /\ mtime' = mtime + 1
    /\ \/ \E b \in Bytes : Len(content) < MaxFileLen /\ content' = Append(content, b)
       \/ content # <<>> /\ content' = SubSeq(content, 1, Len(content) - 1)
       \/ content' = content
    /\ UNCHANGED <<filePos, bodyState, hasher, hashState, sent, hashSent,
                   hashEnded, polledWhileHeld>>
    /\ UNCHANGED <<upPc, metadata, query, opened>>
    /\ UNCHANGED <<schedVars, taskVars, walkVars, mainVars>>

\* UploadedFile::open (17-25): std::fs::metadata(&path) by path; no handle
UploadedFileOpen ==
    /\ upPc = "open"
    /\ metadata' = Stat
    /\ upPc' = "query"
    /\ UNCHANGED <<content, filePos, bodyState, hasher, hashState, sent,
                   hashSent, hashEnded, polledWhileHeld>>
    /\ UNCHANGED <<mtime, query, opened>>
    /\ UNCHANGED <<schedVars, taskVars, walkVars, mainVars>>

\* as_query (27-42), evaluated for .query() before the form is built
\* (mod.rs:96-98): size and mtime are formatted from the stored metadata
as_query ==
    /\ upPc = "query"
    /\ query' = [size |-> Format(metadata.len), mtime |-> Format(metadata.mtime)]
    /\ upPc' = "form"
    /\ UNCHANGED <<content, filePos, bodyState, hasher, hashState, sent,
                   hashSent, hashEnded, polledWhileHeld>>
    /\ UNCHANGED <<mtime, metadata, opened>>
    /\ UNCHANGED <<schedVars, taskVars, walkVars, mainVars>>

\* into_multipart_form (44-51): a new hasher, then get_body opens the handle
\* used for streaming with TokioFile::open(&self.path) (upload.rs:57); the
\* Form is built and neither stream has been polled
into_multipart_form ==
    /\ upPc = "form"
    /\ opened' = Stat
    /\ filePos' = 0
    /\ bodyState' = "open"
    /\ hasher' = Sha256New
    /\ hashState' = "Init"
    /\ upPc' = "streaming"
    /\ UNCHANGED <<content, sent, hashSent, hashEnded, polledWhileHeld>>
    /\ UNCHANGED <<mtime, metadata, query>>
    /\ UNCHANGED <<schedVars, taskVars, walkVars, mainVars>>

\* a stream item was an Err: the request body fails and nothing polls it again
BodyFailed == \E k \in 1..Len(hashSent) : hashSent[k].tag = "Err"

\* the consumer polls the `file` part: one step of get_body's unfold closure.
\* On None the multipart Chain drops the exhausted stream, and with it the
\* closure's Arc, before it polls the next part
PollBody ==
    /\ bodyState = "open"
    /\ ~BodyFailed
    /\ \E n \in ReadSizes(Len(VecWithCapacity(BuffCapacity)), Len(content) - filePos) :
         LET buff == Filled(VecWithCapacity(BuffCapacity), n) IN
         IF n > 0
         THEN /\ hasher' = Input(hasher, buff)
              /\ sent' = Append(sent, buff)
              /\ filePos' = filePos + n
              /\ UNCHANGED bodyState
         ELSE /\ bodyState' = "dropped"
              /\ UNCHANGED <<hasher, sent, filePos>>
    /\ UNCHANGED <<content, hashState, hashSent, hashEnded, polledWhileHeld>>
    /\ UNCHANGED fileVars
    /\ UNCHANGED <<schedVars, taskVars, walkVars, mainVars>>

\* the consumer polls the `file-hash` part: one step of get_hash_part's unfold
\* closure. reqwest's Form polls it after the `file` part ended; a consumer
\* that reads the hash field first polls it while the `file` stream is alive
PollHash ==
    /\ hashState # "none"
    /\ ~hashEnded
    /\ ~BodyFailed
    /\ LET step == HashPartStep(hashState, StrongCount, hasher) IN
         /\ hashState' = step.state
         /\ hashSent' = IF step.some THEN Append(hashSent, step.item) ELSE hashSent
         /\ hashEnded' = ~step.some
    /\ polledWhileHeld' = (polledWhileHeld \/ bodyState = "open")
    /\ UNCHANGED <<content, filePos, bodyState, hasher, sent>>
    /\ UNCHANGED fileVars
    /\ UNCHANGED <<schedVars, taskVars, walkVars, mainVars>>

NextStream ==
    \/ Modify
    \/ UploadedFileOpen
    \/ as_query
    \/ into_multipart_form
    \/ PollBody
    \/ PollHash

SpecStream == InitStream /\ [][NextStream]_vars

\* ====================================================================
\* commands.rs: unfold_dirs on one input path that is a directory
\* ====================================================================
\* what a path is on disk without following links: a regular file, a
\* directory, a directory that cannot be read, a symbolic link
NodeKinds == {"file", "dir", "denied", "link"}

Node(kind, parent, target) == [kind |-> kind, parent |-> parent, target |-> target]

\* the entries that may be added to tree t as node Len(t) + 1: a child of one
\* of its directories; a link points at a node of the tree, or (0) nowhere
NewNodes(t) ==
    LET dirs == {k \in 1..Len(t) : t[k].kind = "dir"} IN
    {Node(kind, parent, 0) : kind \in NodeKinds \ {"link"}, parent \in dirs}
        \cup {Node("link", parent, target) :
                  parent \in dirs, target \in 0..MaxNodes \ {Len(t) + 1}}

RECURSIVE TreesOfSize(_)
TreesOfSize(n) ==
    IF n = 1
    THEN {<<Node(kind, 0, 0)>> : kind \in {"dir", "denied"}}
    ELSE UNION {{Append(t, e) : e \in NewNodes(t)} : t \in TreesOfSize(n - 1)}

\* the trees whose root is the input directory; a link's target is another
\* node of the tree or 0
Trees ==
    {t \in UNION {TreesOfSize(n) : n \in 1..MaxNodes} :
        \A k \in 1..Len(t) : t[k].target <= Len(t)}

\* std::fs::metadata(path): the node the path denotes after following
\* links, 0 when a link dangles or the links loop
RECURSIVE Resolve(_, _, _)
Resolve(t, n, hops) ==
    IF n = 0 THEN 0
    ELSE IF t[n].kind # "link" THEN n
    ELSE IF hops = 0 THEN 0
    ELSE Resolve(t, t[n].target, hops - 1)

\* Path::is_file: metadata(path), which follows links, says regular file
is_file(t, n) ==
    LET r == Resolve(t, n, Len(t)) IN r # 0 /\ t[r].kind = "file"

\* the entries of directory n, in read_dir's order, as Ok entries to yield
RECURSIVE ChildrenFrom(_, _, _)
ChildrenFrom(t, n, k) ==
    IF k > Len(t) THEN <<>>
    ELSE IF t[k].parent = n
    THEN <<[n |-> k, err |-> FALSE]>> \o ChildrenFrom(t, n, k + 1)
    ELSE ChildrenFrom(t, n, k + 1)

\* unfold_dirs (135-158) took the is_dir branch for the input path:
\* WalkDir::new(path) yields the root first
InitWalk ==
    /\ SchedIdle
    /\ StreamIdle
    /\ MainIdle
    /\ fs \in Trees
    /\ stack = <<[n |-> 1, err |-> FALSE]>>
    /\ out = <<>>
    /\ walkPc = "walking"

\* the iterator yields Ok(e): the path passes .filter(|p| p.is_file()) or
\* not. With follow_links(false) only a real directory is descended into;
\* one that cannot be read makes the iterator's next item an Err
WalkOk ==
    /\ walkPc = "walking"
    /\ stack # <<>>
    /\ ~Head(stack).err
    /\ LET n == Head(stack).n IN
         /\ out' = IF is_file(fs, n) THEN Append(out, n) ELSE out
         /\ stack' = (IF fs[n].kind = "dir" THEN ChildrenFrom(fs, n, 1)
                      ELSE IF fs[n].kind = "denied" THEN <<[n |-> n, err |-> TRUE]>>
                      ELSE <<>>) \o Tail(stack)
    /\ UNCHANGED <<fs, walkPc>>
    /\ UNCHANGED <<schedVars, taskVars, streamVars, mainVars>>

\* the iterator yields Err(e): warn! and None, the walk goes on
WalkErr ==
    /\ walkPc = "walking"
    /\ stack # <<>>
    /\ Head(stack).err
    /\ stack' = Tail(stack)
    /\ UNCHANGED <<fs, out, walkPc>>
    /\ UNCHANGED <<schedVars, taskVars, streamVars, mainVars>>

\* the iterator is exhausted: .collect()
WalkCollect ==
    /\ walkPc = "walking"
    /\ stack = <<>>
    /\ walkPc' = "done"
    /\ UNCHANGED <<fs, stack, out>>
    /\ UNCHANGED <<schedVars, taskVars, streamVars, mainVars>>

NextWalk == WalkOk \/ WalkErr \/ WalkCollect

SpecWalk == InitWalk /\ [][NextWalk]_vars

\* ====================================================================
\* main.rs: the Upload branch of main
\* ====================================================================
\* what a path given on the command line is: a directory (is_dir() is true)
\* or anything else
ArgKinds == {"file", "dir"}

ArgLists == UNION {[1..n -> ArgKinds] : n \in 0..MaxArgs}

\* the directory test looking at the first path only
RejectsDir_FirstOnly(paths, rec) ==
    paths # <<>> /\ paths[1] = "dir" /\ ~rec

\* main.rs:82-89: for path in filenames.iter() { if path.is_dir() && !recursive
RejectsDir(paths, rec) ==
    \E k \in 1..Len(paths) : paths[k] = "dir" /\ ~rec

\* the lengths unfold_dirs' result can have: a path that is no directory
\* stays as it is, a directory gives the files found under it
RECURSIVE ExpandedLengths(_)
ExpandedLengths(paths) ==
    IF paths = <<>> THEN {0}
    ELSE {a + b : a \in (IF Head(paths) = "dir" THEN 0..MaxFiles ELSE {1}),
                  b \in ExpandedLengths(Tail(paths))}

\* main has parsed the Upload command's options
InitMain ==
    /\ mainPc = "check"
    /\ args \in ArgLists
    /\ recursive \in BOOLEAN
    /\ sessionLoaded = FALSE
    /\ parallelism \in 1..MaxParallelism
    /\ filenames = <<>>
    /\ next = 1
    /\ in_progress = {}
    /\ results = <<>>
    /\ run = "idle"
    /\ report = [tag |-> "None", errs |-> <<>>]
    /\ pc = <<>>
    /\ attempt = <<>>
    /\ calls = <<>>
    /\ requests = <<>>
    /\ waits = <<>>
    /\ answered = <<>>
    /\ outcome = <<>>
    /\ StreamIdle
    /\ WalkIdle

\* main.rs:78-89: the two early returns
MainCheck ==
    /\ mainPc = "check"
    /\ mainPc' = IF args = <<>> \/ RejectsDir(args, recursive)
                 THEN "failed" ELSE "load"
    /\ UNCHANGED <<args, recursive, sessionLoaded>>
    /\ UNCHANGED <<schedVars, taskVars, streamVars, walkVars>>

\* main.rs:96, 99-108: load_session(&config_file).await?
LoadSession ==
    /\ mainPc = "load"
    /\ \E ok \in BOOLEAN :
         /\ sessionLoaded' = ok
         /\ mainPc' = IF ok THEN "upload" ELSE "failed"
    /\ UNCHANGED <<args, recursive>>
    /\ UNCHANGED <<schedVars, taskVars, streamVars, walkVars>>

\* main.rs:97, commands.rs:73-85: upload_files takes the paths, unfold_dirs
\* expands them, and the futures are set up, none polled yet. The paths are
\* moved into upload_files and the flag is not read again: both are cleared
EnterUploadFiles ==
    /\ mainPc = "upload"
    /\ \E n \in ExpandedLengths(args) :
         /\ n <= MaxFiles
         /\ filenames' = [i \in 1..n |-> "utf8"]
         /\ pc' = [i \in 1..n |-> "queued"]
         /\ attempt' = [i \in 1..n |-> 1]
         /\ calls' = [i \in 1..n |-> 0]
         /\ requests' = [i \in 1..n |-> 0]
         /\ waits' = [i \in 1..n |-> <<>>]
         /\ answered' = [i \in 1..n |-> NoAnswer]
         /\ outcome' = [i \in 1..n |-> Pending]
    /\ run' = "running"
    /\ args' = <<>>
    /\ recursive' = FALSE
    /\ mainPc' = "uploading"
    /\ UNCHANGED sessionLoaded
    /\ UNCHANGED <<parallelism, next, in_progress, results, report>>
    /\ UNCHANGED <<streamVars, walkVars>>

NextMain ==
    \/ MainCheck
    \/ LoadSession
    \/ EnterUploadFiles
    \/ Next

SpecMain == InitMain /\ [][NextMain]_vars

\* ====================================================================
\* Properties
\* ====================================================================
Started == {i \in Tasks : pc[i] \notin {"queued", "done"}}

HasReturned == run \in {"Ok", "Err"}

IsErr(i) == outcome[i].tag = "Err"
IsOk(i) == outcome[i].tag = "Ok"
Rejections == {"HashMismatch", "BadRequest"}

RECURSIVE SumSeq(_)
SumSeq(q) == IF q = <<>> THEN 0 ELSE Head(q) + SumSeq(Tail(q))

DigestEmitted ==
    \E k \in 1..Len(hashSent) : hashSent[k].tag = "Ok" /\ hashSent[k].val # ""

\* C1: once the `file` part has been streamed to its end, the concatenation
\* of its chunks is the file's content, byte for byte.
C1_BodyIsFileContent ==
    bodyState = "dropped" => Concat(sent) = content

\* C2: the digest emitted in the `file-hash` part is the digest of the
\* file's whole byte sequence hashed in one pass.
C2_DigestOfWholeFile ==
    \A k \in 1..Len(hashSent) :
        (hashSent[k].tag = "Ok" /\ hashSent[k].val # "")
            => hashSent[k].val = Digest(content)

\* C3: at every instant at most `parallelism` tasks are started and not yet
\* terminal, and a queued task is started only in a state where fewer than
\* `parallelism` are.
C3_AtMostPInFlight ==
    /\ [](Cardinality(Started) <= parallelism)
    /\ [][\A i \in Tasks :
            (pc[i] = "queued" /\ pc'[i] # "queued")
                => Cardinality(Started) < parallelism]_vars

C3_Witness ==
    /\ Cardinality(Started) = parallelism
    /\ next <= Len(filenames)
    /\ \E i \in Started : pc[i] = "sending"

\* C4: the closure given to retried is never called a fourth time, and when
\* retried returns an error every one of MAX_ATTEMPTS attempts has failed and
\* the error is the one of the last attempt.
C4_ThreeAttemptsThenError ==
    \A i \in Tasks :
        /\ calls[i] <= MAX_ATTEMPTS
        /\ (IsErr(i) /\ outcome[i].val.kind # "Canonicalize")
               => /\ calls[i] = MAX_ATTEMPTS
                  /\ Len(waits[i]) = MAX_ATTEMPTS - 1
                  /\ outcome[i].val.at = MAX_ATTEMPTS

C4_Witness ==
    \E i \in Tasks :
        IsErr(i) /\ outcome[i].val.kind = "Transport" /\ calls[i] = MAX_ATTEMPTS

\* C5: a task that succeeds after k failed attempts (k in 0..2) has called the
\* closure k+1 times; the wait after the j-th failure is 2^j seconds, so the
\* waits sum to 2^1 + ... + 2^k.
C5_SuccessAfterKFailures ==
    \A i \in Tasks :
        /\ \A j \in 1..Len(waits[i]) : waits[i][j] = 2 ^ j
        /\ IsOk(i) => /\ Len(waits[i]) \in 0..(MAX_ATTEMPTS - 1)
                      /\ calls[i] = Len(waits[i]) + 1
                      /\ SumSeq(waits[i]) = 2 ^ (Len(waits[i]) + 1) - 2

C5_Witness ==
    \E i \in Tasks : IsOk(i) /\ Len(waits[i]) = 2 /\ SumSeq(waits[i]) = 6

C7_SiblingsReachOutcome ==
    run # "running" =>
        \A i \in Tasks : filenames[i] = "utf8" => pc[i] = "done"

\* C8: the `file-hash` part yields a digest only after the `file` stream has
\* ended and released the hasher; polled while that stream holds the hasher,
\* it yields an error and nothing else.
C8_HashAfterBody ==
    /\ DigestEmitted => (bodyState = "dropped" /\ ~polledWhileHeld)
    /\ polledWhileHeld => (hashSent = <<ErrItem>> /\ hashState = "Closed")

C8_Witness ==
    polledWhileHeld /\ hashSent = <<ErrItem>> /\ bodyState = "open"

\* C9 as claimed: a file whose upload the server answers with 412 or 400 has
\* had exactly one request sent.
C9_ExactlyOneRequest ==
    \A i \in Tasks : answered[i] \in {412, 400} => requests[i] = 1

RejectionOf(status) == IF status = 412 THEN "HashMismatch" ELSE "BadRequest"

\* C9 amended: an attempt answered with 412 or 400 either ends the task with
\* that rejection as its outcome, without another request, or (the text
\* could not be read) fails as a transport error; and once a task has an Ok
\* outcome no request is sent for it again.
C9_RejectionIsTerminal ==
    [][\A i \in Tasks :
        /\ (pc[i] = "reading" /\ answered[i] \in {412, 400})
              => \/ /\ pc'[i] = "done"
                    /\ outcome'[i] = Ok(RejectionOf(answered[i]))
                    /\ requests'[i] = requests[i]
                    /\ calls'[i] = calls[i]
                 \/ /\ pc'[i] = "backoff"
                    /\ attempt[i] < MAX_ATTEMPTS
                 \/ /\ pc'[i] = "done"
                    /\ outcome'[i] = Err("Transport", 0, MAX_ATTEMPTS)
                 \/ pc'[i] = "reading"
        /\ IsOk(i) => /\ pc'[i] = "done"
                      /\ outcome'[i] = outcome[i]
                      /\ requests'[i] = requests[i]]_vars

C9_Witness ==
    \E i \in Tasks :
        IsOk(i) /\ outcome[i].val \in Rejections /\ requests[i] = 2

\* C10: when every file's terminal outcome is Success, HashMismatch or
\* BadRequest, upload_files returns success, also when all are rejections.
C10_RejectionsDoNotFail ==
    (HasReturned /\ \A i \in Tasks : IsOk(i)) => run = "Ok"

C10_Witness ==
    /\ run = "Ok"
    /\ Len(filenames) >= 2
    /\ \A i \in Tasks : IsOk(i) /\ outcome[i].val \in Rejections

\* --------------------------------------------------------------------
FailedFiles == {i \in Tasks : IsErr(i)}

\* the files named by the entries of an error list
FailedIn(rep) == {rep.errs[k].file : k \in 1..Len(rep.errs)}

\* file i's final error is an entry of the returned error list
Reported(i) ==
    \E k \in 1..Len(report.errs) :
        report.errs[k].file = i /\ report.errs[k].val = outcome[i].val

OtherStatuses == Statuses \ {200, 412, 400}

\* C11: a request in flight answered with a status other than 200, 412 and
\* 400 fails its attempt with the error InvalidStatus { expected: 200, found:
\* status }, whatever the response holds; the error is retried like a
\* transport failure, so a task ending with it made three attempts with the
\* waits 2 s and 4 s, and the error is in the returned list
C11_OtherStatusIsRetriedError ==
    /\ \A i \in Tasks : \A status \in OtherStatuses :
          pc[i] = "sending" =>
              ClassifyResponse(status, FALSE, attempt[i])
                  = InvalidStatus(200, status, attempt[i])
    /\ \A i \in Tasks :
          (IsErr(i) /\ outcome[i].val.kind = "InvalidStatus") =>
              /\ outcome[i].val.expected = 200
              /\ outcome[i].val.found \in OtherStatuses
              /\ outcome[i].val.at = MAX_ATTEMPTS
              /\ calls[i] = MAX_ATTEMPTS
              /\ waits[i] = <<2, 4>>
              /\ HasReturned => (run = "Err" /\ Reported(i))

\* a returned run in which a file was given up on after a third answer of 500
C11_Witness ==
    /\ HasReturned
    /\ \E i \in Tasks :
          /\ IsErr(i)
          /\ outcome[i].val.kind = "InvalidStatus"
          /\ outcome[i].val.found = 500
          /\ requests[i] = MAX_ATTEMPTS

\* C12: once every task has finished, the error list has exactly one entry
\* for each failed file and none for any other, each entry being that file's
\* error; the run fails exactly when the list is not empty
C12_OneEntryPerFailedFile ==
    HasReturned =>
        /\ Len(report.errs) = Cardinality(FailedFiles)
        /\ \A i \in Tasks :
              Cardinality({k \in 1..Len(report.errs) : report.errs[k].file = i})
                  = IF IsErr(i) THEN 1 ELSE 0
        /\ \A i \in FailedFiles : Reported(i)
        /\ Cardinality({i \in Tasks : IsOk(i)})
              = Len(filenames) - Len(report.errs)
        /\ (run = "Err") <=> (report.errs # <<>>)

\* a returned run of two files, one failed and one uploaded
C12_Witness ==
    /\ HasReturned
    /\ run = "Err"
    /\ Len(report.errs) = 1
    /\ \E i, j \in Tasks : IsErr(i) /\ IsOk(j)

\* the bijections of 1..n
Perms(n) ==
    {f \in [1..n -> 1..n] : \A a, b \in 1..n : a # b => f[a] # f[b]}

Permuted(list, f) == [k \in 1..Len(list) |-> list[f[k]]]

\* C13: the run's result and the set of failed files are the same for every
\* order in which the tasks' results could have been collected
C13_OrderIndependent ==
    HasReturned =>
        /\ FailedIn(report) = FailedFiles
        /\ \A f \in Perms(Len(results)) :
              LET r == collect_errors(Permuted(results, f)) IN
              /\ Returned(r) = run
              /\ FailedIn(r) = FailedIn(report)

\* a returned run whose second task completed before its first, one of the
\* two failing
C13_Witness ==
    /\ HasReturned
    /\ Len(results) = 2
    /\ results[1].file = 2
    /\ results[1].tag # results[2].tag

\* one step of task j's future
TaskStep(j) ==
    \/ Canonicalize(j)
    \/ BeginAttempt(j)
    \/ Respond(j)
    \/ ReadBody(j)
    \/ BackoffElapsed(j)

\* C19: while a task waits in backoff, the scheduler is not blocked: it can
\* pull the next file into a free slot, and once the slots are filled every
\* other task in flight can take its next step (which, when that step ends
\* the task, collects its outcome)
C19_BackoffDoesNotBlock ==
    \A i \in Tasks :
        (run = "running" /\ pc[i] = "backoff") =>
            /\ (next <= Len(filenames) /\ CanStart) => ENABLED StartTask
            /\ SlotsFilled =>
                  \A j \in in_progress \ {i} : ENABLED TaskStep(j)

\* one task in backoff while another has its request in flight
C19_Witness ==
    /\ run = "running"
    /\ \E i, j \in in_progress :
          i # j /\ pc[i] = "backoff" /\ pc[j] = "sending"

\* C20: a file that cannot be opened or whose metadata cannot be read fails
\* the attempt inside the retried closure: the task ends with that error only
\* after three calls of the closure (each reading the metadata again) and
\* the waits 2 s and 4 s. A canonicalization failure ends the task at once:
\* the closure is never called and nothing is sent. Both are in the returned
\* error list
C20_OpenFailureRetriedCanonicalizeNot ==
    \A i \in Tasks :
        /\ (IsErr(i) /\ outcome[i].val.kind = "File") =>
              /\ calls[i] = MAX_ATTEMPTS
              /\ outcome[i].val.at = MAX_ATTEMPTS
              /\ waits[i] = <<2, 4>>
        /\ (IsErr(i) /\ outcome[i].val.kind = "Canonicalize") =>
              /\ calls[i] = 0
              /\ requests[i] = 0
              /\ waits[i] = <<>>
        /\ (IsErr(i) /\ outcome[i].val.kind \in {"File", "Canonicalize"}
              /\ HasReturned) => (run = "Err" /\ Reported(i))

\* a returned run with one file failed at canonicalize and one given up on
\* after three failed opens
C20_Witness ==
    /\ HasReturned
    /\ \E i, j \in Tasks :
          /\ IsErr(i) /\ outcome[i].val.kind = "Canonicalize"
          /\ IsErr(j) /\ outcome[j].val.kind = "File" /\ requests[j] = 0

\* --------------------------------------------------------------------
\* the digests among the items the `file-hash` part has yielded
DigestItems ==
    {k \in 1..Len(hashSent) : hashSent[k].tag = "Ok" /\ hashSent[k].val # ""}

\* C17 as claimed: the hash part, created in Init, moves only from Init to
\* Hashing and from Hashing to Closed.
C17_OnlyInitHashingClosed ==
    [][\/ hashState' = hashState
       \/ hashState = "none" /\ hashState' = "Init"
       \/ hashState = "Init" /\ hashState' = "Hashing"
       \/ hashState = "Hashing" /\ hashState' = "Closed"]_vars

\* C17 amended: the part is created in Init; the state never moves backwards and no state is entered
\* twice: Init goes to Hashing with an empty item when the hasher could be
\* taken, or straight to Closed with an error item when it could not;
\* Hashing goes to Closed with the one digest; Closed is left no more and
\* yields nothing. At most one digest is ever emitted.
C17_HashStateMachine ==
    /\ [](Cardinality(DigestItems) <= 1)
    /\ [][\/ /\ hashState' = hashState
             /\ hashSent' = hashSent
          \/ /\ hashState = "none"
             /\ hashState' = "Init"
             /\ hashSent' = hashSent
          \/ /\ hashState = "Init"
             /\ hashState' = "Hashing"
             /\ bodyState # "open"
             /\ hashSent' = Append(hashSent, OkItem(""))
          \/ /\ hashState = "Init"
             /\ hashState' = "Closed"
             /\ bodyState = "open"
             /\ hashSent' = Append(hashSent, ErrItem)
          \/ /\ hashState = "Hashing"
             /\ hashState' = "Closed"
             /\ hashSent' = Append(hashSent, OkItem(HexEncode(Result(hasher))))]_vars

\* the part went through Init, Hashing and Closed, emitted its digest, and
\* was polled once more, yielding nothing
C17_Witness ==
    /\ hashState = "Closed"
    /\ hashSent = <<OkItem(""), OkItem(HexEncode(Result(hasher)))>>
    /\ hashEnded

\* --------------------------------------------------------------------
\* C15: once the handle used for streaming is open, the `size` and `mtime`
\* query parameters are the file's length and modification time as they were
\* when that handle was opened.
C15_QueryReflectsOpenedFile ==
    upPc = "streaming" =>
        /\ query.size = Format(opened.len)
        /\ query.mtime = Format(opened.mtime)

\* --------------------------------------------------------------------
\* the entries of the output that denote node n
EntriesFor(n) == {k \in 1..Len(out) : Resolve(fs, out[k], Len(fs)) = n}

\* C16: when unfold_dirs has walked a directory, every path of its output
\* denotes an existing regular file, none is a directory or a dangling
\* link, and every regular file of the tree (all lie under readable
\* directories) is in the output exactly once.
C16_EveryRegularFileOnce ==
    walkPc = "done" =>
        /\ \A k \in 1..Len(out) :
              /\ fs[out[k]].kind \notin {"dir", "denied"}
              /\ is_file(fs, out[k])
        /\ \A n \in 1..Len(fs) :
              fs[n].kind = "file" => Cardinality(EntriesFor(n)) = 1

\* --------------------------------------------------------------------
\* some path of the command line is a directory and recursion is off
DirWithoutRecursion ==
    ~recursive /\ \E k \in 1..Len(args) : args[k] = "dir"

\* C14: when a path given to upload is a directory and the recursion flag is
\* not set, main goes from its check straight to failure: the session is not
\* loaded, upload_files is not entered (no path is expanded), no task is
\* started and no request is sent
C14_DirWithoutRecursionFailsAtOnce ==
    DirWithoutRecursion =>
        /\ mainPc \in {"check", "failed"}
        /\ ~sessionLoaded
        /\ run = "idle"
        /\ filenames = <<>>
        /\ walkPc = "none"
        /\ in_progress = {}
        /\ next = 1
        /\ results = <<>>
        /\ requests = <<>>

\* main has failed on a command line whose second path is the directory
C14_Witness ==
    /\ mainPc = "failed"
    /\ DirWithoutRecursion
    /\ Len(args) = 2
    /\ args[1] = "file"

\* --------------------------------------------------------------------
\* C21: a task waiting in backoff stays in the buffered queue and holds its
\* slot until it ends: the tasks in the queue are exactly the started and
\* unfinished ones, backing-off ones included, there are never more than
\* `parallelism` of them, and while there are `parallelism` no queued task
\* can be started
C21_BackoffKeepsSlot ==
    /\ \A i \in Tasks : pc[i] = "backoff" => i \in in_progress
    /\ in_progress = Started
    /\ Cardinality(in_progress) <= parallelism
    /\ Cardinality(in_progress) = parallelism => ~ENABLED StartTask

\* every slot is taken, one of them by a task in backoff, and a file is
\* still queued
C21_Witness ==
    /\ run = "running"
    /\ Cardinality(in_progress) = parallelism
    /\ \E i \in in_progress : pc[i] = "backoff"
    /\ \E j \in Tasks : pc[j] = "queued"

====
